---- MODULE Spec2Model ----
(***************************************************************************)
(* SimpleSQL: the row store behind the "insert" / "select" commands.       *)
(*                                                                         *)
(* The table is an append-only array of fixed-width rows laid out in       *)
(* fixed-size pages (row_slot), filled by execute_insert and read back by  *)
(* execute_select; db_open rebuilds the row count from the file length.    *)
(* Memory is modelled byte by byte: a page is a function from byte offset  *)
(* to byte, the database file is a sequence of bytes.                      *)
(*                                                                         *)
(* Sizes are scaled down (the program uses 32/255-character columns,       *)
(* 4096-byte pages and 100 pages); the layout arithmetic is the program's. *)
(*                                                                         *)
(* The pager (pager_open, get_page, the flush of db_close) is declared in  *)
(* the header but its code is not among the sources; it is modelled from   *)
(* the design document.  The meta command ".exit" of db.c, which frees the *)
(* table without going through the pager, is not modelled: a table is      *)
(* closed by db_close.                                                     *)
(***************************************************************************)
EXTENDS Integers, Sequences, FiniteSets, TLC

(***************************************************************************)
(* Bounds                                                                  *)
(***************************************************************************)
\* db.h: #define COLUMN_USERNAME_SIZE 32 (scaled)
COLUMN_USERNAME_SIZE == 2
\* db.h: #define COLUMN_EMAIL_SIZE 255 (scaled)
COLUMN_EMAIL_SIZE == 3
\* PAGE_SIZE is 4096 in the program (scaled; as there, a page holds a whole
\* number of rows plus a remainder that is most of a row)
PAGE_SIZE == 32
\* db.h: #define TABLE_MAX_PAGES 100 (scaled)
TABLE_MAX_PAGES == 2
\* the specification with malformed command lines reads this many lines
MaxCommands == 3

(***************************************************************************)
(* Row layout                                                              *)
(***************************************************************************)
Byte == 0..255

INT32_MAX == 2147483647

\* A uint32_t is written as the int that has the same 32 bits (the model
\* checker's integers are 32 bits wide): 4294967295 is written -1.
UInt32 == (0 - INT32_MAX - 1)..INT32_MAX

\* a < b as uint32_t values
U32Less(a, b) == IF (a < 0) = (b < 0) THEN a < b ELSE b < 0

\* sizeof(uint32_t id)
ID_SIZE == 4

\* sizeof(char username[COLUMN_USERNAME_SIZE + 1])
USERNAME_SIZE == COLUMN_USERNAME_SIZE + 1

\* sizeof(char email[COLUMN_EMAIL_SIZE + 1])
EMAIL_SIZE == COLUMN_EMAIL_SIZE + 1

ID_OFFSET == 0

USERNAME_OFFSET == ID_OFFSET + ID_SIZE

EMAIL_OFFSET == USERNAME_OFFSET + USERNAME_SIZE

ROW_SIZE == ID_SIZE + USERNAME_SIZE + EMAIL_SIZE

ROWS_PER_PAGE == PAGE_SIZE \div ROW_SIZE

TABLE_MAX_ROWS == ROWS_PER_PAGE * TABLE_MAX_PAGES

\* a value of type Row: the id and the two character arrays
Row == [id : UInt32,
        username : [0..(USERNAME_SIZE - 1) -> Byte],
        email : [0..(EMAIL_SIZE - 1) -> Byte]]

Zeros(n) == [i \in 0..(n - 1) |-> 0]

ZeroRow == [id |-> 0, username |-> Zeros(USERNAME_SIZE), email |-> Zeros(EMAIL_SIZE)]

(***************************************************************************)
(* Bytes                                                                   *)
(***************************************************************************)
RECURSIVE Pow256(_)
Pow256(i) == IF i = 0 THEN 1 ELSE 256 * Pow256(i - 1)

\* the object representation of a uint32_t (little-endian host)
IdBytes(id) == [i \in 0..(ID_SIZE - 1) |-> (id \div Pow256(i)) % 256]

RECURSIVE IdFromBytesUpTo(_, _)
IdFromBytesUpTo(b, n) ==
    IF n = 0 THEN 0 ELSE IdFromBytesUpTo(b, n - 1) + b[n - 1] * Pow256(n - 1)

\* the uint32_t with these bytes (the top byte carries the sign bit of the
\* int it is written as)
IdFromBytes(b) ==
    IdFromBytesUpTo(b, ID_SIZE - 1)
    + (IF b[ID_SIZE - 1] >= 128 THEN b[ID_SIZE - 1] - 256 ELSE b[ID_SIZE - 1])
      * Pow256(ID_SIZE - 1)

\* memcpy(dest + at, src, n): dest with n bytes of src stored from offset at
memcpy(dest, at, src, n) ==
    [i \in DOMAIN dest |-> IF i >= at /\ i < at + n THEN src[i - at] ELSE dest[i]]

\* the n bytes of mem from offset at
Slice(mem, at, n) == [i \in 0..(n - 1) |-> mem[at + i]]

(***************************************************************************)
(* Row codec (table.c)                                                     *)
(***************************************************************************)
\* a plausible slip: the e-mail is copied to the username's offset
serialize_row_swapped(source, mem, destination) ==
    LET m1 == memcpy(mem, destination + ID_OFFSET, IdBytes(source.id), ID_SIZE)
        m2 == memcpy(m1, destination + USERNAME_OFFSET, source.username, USERNAME_SIZE)
    IN  memcpy(m2, destination + USERNAME_OFFSET, source.email, EMAIL_SIZE)

\* serialize_row(source, destination), destination being offset
\* `destination` of the buffer mem; the result is the buffer afterwards
serialize_row(source, mem, destination) ==
    LET m1 == memcpy(mem, destination + ID_OFFSET, IdBytes(source.id), ID_SIZE)
        m2 == memcpy(m1, destination + USERNAME_OFFSET, source.username, USERNAME_SIZE)
    IN  memcpy(m2, destination + EMAIL_OFFSET, source.email, EMAIL_SIZE)

\* deserialize_row(source, destination), source being offset `source` of mem
deserialize_row(mem, source) ==
    [id |-> IdFromBytes(Slice(mem, source + ID_OFFSET, ID_SIZE)),
     username |-> Slice(mem, source + USERNAME_OFFSET, USERNAME_SIZE),
     email |-> Slice(mem, source + EMAIL_OFFSET, EMAIL_SIZE)]

(***************************************************************************)
(* State                                                                   *)
(***************************************************************************)
VARIABLES
    pc,             \* "closed", "prompt" or "failed"
    file,           \* the bytes of the database file
    table,          \* the Table: num_rows and the pager (file_length, pages)
    statement,      \* the caller's Statement: type and row_to_insert
    prepareResult,  \* what prepare_statement returned last
    executeResult,  \* what execute_statement returned last
    output,         \* the rows printed by the last command
    lastOp,         \* the last command carried out
    inserted,       \* history: the rows of the successful inserts, in order
    dupAttempt,     \* history: the last insert's key had been inserted before
    rowsUsed,       \* history: the row numbers the last command gave row_slot
    sessionInserts, \* history: successful inserts since db_open
    openRows,       \* history: num_rows as db_open computed it
    closedRows,     \* history: the rows a scan yielded when the table was closed
    input_buffer,   \* the command line read last
    commands,       \* history: number of command lines read
    fullInserts,    \* history: inserts on this table that found it full (0, 1, many)
    codec           \* the row codec on its own: a row, a buffer, the row read back

vars == <<pc, file, table, statement, prepareResult, executeResult, output,
          lastOp, inserted, dupAttempt, rowsUsed, sessionInserts, openRows,
          closedRows, input_buffer, commands, fullInserts, codec>>

\* pager->pages[p] == NULL: no buffer is allocated for page p
NULL == [i \in 0..(PAGE_SIZE - 1) |-> -1]

NoTable == [num_rows |-> 0,
            pager |-> [file_length |-> 0, pages |-> [p \in 0..(TABLE_MAX_PAGES - 1) |-> NULL]]]

(***************************************************************************)
(* Pager                                                                   *)
(***************************************************************************)
\* pager_open(filename): the length of the file is recorded, no page is
\* cached; a length that is no whole multiple of the page size is refused
pager_open ==
    IF Len(file) % PAGE_SIZE # 0
    THEN [ok |-> FALSE, pager |-> NoTable.pager]
    ELSE [ok |-> TRUE,
          pager |-> [file_length |-> Len(file),
                     pages |-> [p \in 0..(TABLE_MAX_PAGES - 1) |-> NULL]]]

\* the buffer of a page on its first access: zeroed, then filled with the
\* bytes of the file that lie in the page (a partial page at the tail too)
LoadPage(pager, page_num) ==
    [i \in 0..(PAGE_SIZE - 1) |->
        IF page_num * PAGE_SIZE + i < pager.file_length
           /\ page_num * PAGE_SIZE + i < Len(file)
        THEN file[page_num * PAGE_SIZE + i + 1]
        ELSE 0]

\* get_page(pager, page_num): the pager afterwards; a page number at or
\* beyond TABLE_MAX_PAGES is the fatal capacity error
get_page(pager, page_num) ==
    IF page_num >= TABLE_MAX_PAGES
    THEN [ok |-> FALSE, pager |-> pager]
    ELSE IF pager.pages[page_num] = NULL
    THEN [ok |-> TRUE,
          pager |-> [pager EXCEPT !.pages[page_num] = LoadPage(pager, page_num)]]
    ELSE [ok |-> TRUE, pager |-> pager]

\* the file after size bytes of buf are written at offset at
WriteAt(f, at, buf, size) ==
    LET newLen == IF at + size > Len(f) THEN at + size ELSE Len(f)
    IN  [k \in 1..newLen |->
            IF k - 1 >= at /\ k - 1 < at + size THEN buf[k - 1 - at]
            ELSE IF k <= Len(f) THEN f[k] ELSE 0]

\* flush(page_num, size): size bytes of the page go to offset page_num * PAGE_SIZE
pager_flush(pager, f, page_num, size) ==
    WriteAt(f, page_num * PAGE_SIZE, pager.pages[page_num], size)

\* the number of bytes of page p that hold rows
LiveBytes(t, p) ==
    IF p < t.num_rows \div ROWS_PER_PAGE THEN PAGE_SIZE
    ELSE IF p = t.num_rows \div ROWS_PER_PAGE THEN (t.num_rows % ROWS_PER_PAGE) * ROW_SIZE
    ELSE 0

RECURSIVE FlushFrom(_, _, _)
FlushFrom(t, f, p) ==
    IF p >= TABLE_MAX_PAGES THEN f
    ELSE IF t.pager.pages[p] = NULL \/ LiveBytes(t, p) = 0 THEN FlushFrom(t, f, p + 1)
    ELSE FlushFrom(t, pager_flush(t.pager, f, p, LiveBytes(t, p)), p + 1)

\* db_close(table): every cached page that holds rows is flushed, the full
\* pages whole and the last one up to its last row; the result is the file
db_close(t) == FlushFrom(t, file, 0)

(***************************************************************************)
(* Table (table.c)                                                         *)
(***************************************************************************)
\* a plausible slip: the row count is one too many
db_open_plusone ==
    LET o == pager_open
    IN  [ok |-> o.ok,
         table |-> [pager |-> o.pager,
                    num_rows |-> o.pager.file_length \div ROW_SIZE + 1]]

\* db_open(filename)
db_open ==
    LET o == pager_open
    IN  [ok |-> o.ok,
         table |-> [pager |-> o.pager,
                    num_rows |-> o.pager.file_length \div ROW_SIZE]]

\* row_slot(table, row_num): the page, the offset in it, the pager afterwards
row_slot(t, row_num) ==
    LET page_num == row_num \div ROWS_PER_PAGE
        g == get_page(t.pager, page_num)
        row_offset == row_num % ROWS_PER_PAGE
        byte_offset == row_offset * ROW_SIZE
    IN  [ok |-> g.ok, pager |-> g.pager, page_num |-> page_num,
         byte_offset |-> byte_offset]

(***************************************************************************)
(* Printing                                                                *)
(***************************************************************************)
\* the bytes of a Row object: id, username[], email[] one after the other
StructMem(row) ==
    [i \in 0..(ROW_SIZE - 1) |->
        IF i < ID_SIZE THEN IdBytes(row.id)[i]
        ELSE IF i < ID_SIZE + USERNAME_SIZE THEN row.username[i - ID_SIZE]
        ELSE row.email[i - ID_SIZE - USERNAME_SIZE]]

StructRow(mem) ==
    [id |-> IdFromBytes(Slice(mem, 0, ID_SIZE)),
     username |-> Slice(mem, ID_SIZE, USERNAME_SIZE),
     email |-> Slice(mem, ID_SIZE + USERNAME_SIZE, EMAIL_SIZE)]

\* the characters of arr from index i up to the first NUL or the end of arr
RECURSIVE UpToNul(_, _, _)
UpToNul(arr, i, n) ==
    IF i >= n \/ arr[i] = 0 THEN <<>> ELSE <<arr[i]>> \o UpToNul(arr, i + 1, n)

HasNul(arr) == \E i \in DOMAIN arr : arr[i] = 0

\* printf("%d", id): the uint32_t read as an int, the int with the same bits
AsInt(id) == id

\* print_row(row): the line "(id, username, email)". printf's %s reads up to
\* the first NUL: a username array without one is read on into the email
\* array, which follows it in the Row.
print_row(row) ==
    [id |-> AsInt(row.id),
     username |-> IF HasNul(row.username)
                  THEN UpToNul(row.username, 0, USERNAME_SIZE)
                  ELSE UpToNul(row.username, 0, USERNAME_SIZE)
                       \o UpToNul(row.email, 0, EMAIL_SIZE),
     email |-> UpToNul(row.email, 0, EMAIL_SIZE)]

(***************************************************************************)
(* Statements (db.c)                                                       *)
(***************************************************************************)
\* a plausible slip: the capacity test is off by one
execute_insert_offbyone(stmt, t) ==
    IF t.num_rows + 1 >= TABLE_MAX_ROWS
    THEN [result |-> "EXECUTE_TABLE_FULL", table |-> t, used |-> {}]
    ELSE LET s == row_slot(t, t.num_rows)
         IN  [result |-> "EXECUTE_SUCCESS",
              table |-> [num_rows |-> t.num_rows + 1,
                         pager |-> [s.pager EXCEPT !.pages[s.page_num] =
                                       serialize_row(stmt.row_to_insert, @, s.byte_offset)]],
              used |-> {t.num_rows}]

\* a plausible slip: a full table starts again at row 0
execute_insert_wrap(stmt, t) ==
    LET n == IF t.num_rows >= TABLE_MAX_ROWS THEN 0 ELSE t.num_rows
        s == row_slot(t, n)
    IN  IF ~s.ok
        THEN [result |-> "FATAL", table |-> t, used |-> {n}]
        ELSE [result |-> IF t.num_rows >= TABLE_MAX_ROWS
                         THEN "EXECUTE_TABLE_FULL" ELSE "EXECUTE_SUCCESS",
              table |-> [num_rows |-> n + 1,
                         pager |-> [s.pager EXCEPT !.pages[s.page_num] =
                                       serialize_row(stmt.row_to_insert, @, s.byte_offset)]],
              used |-> {n}]

\* execute_insert(statement, table): the result, the table afterwards and
\* the row numbers given to row_slot
execute_insert(stmt, t) ==
    IF t.num_rows >= TABLE_MAX_ROWS
    THEN [result |-> "EXECUTE_TABLE_FULL", table |-> t, used |-> {}]
    ELSE LET s == row_slot(t, t.num_rows)
         IN  IF ~s.ok
             THEN [result |-> "FATAL", table |-> t, used |-> {t.num_rows}]
             ELSE [result |-> "EXECUTE_SUCCESS",
                   table |-> [num_rows |-> t.num_rows + 1,
                              pager |-> [s.pager EXCEPT !.pages[s.page_num] =
                                            serialize_row(stmt.row_to_insert, @, s.byte_offset)]],
                   used |-> {t.num_rows}]

\* the loop of execute_select from row i on
RECURSIVE select_loop(_, _, _, _)
select_loop(t, i, out, used) ==
    IF i >= t.num_rows
    THEN [result |-> "EXECUTE_SUCCESS", table |-> t, output |-> out, used |-> used]
    ELSE LET s == row_slot(t, i)
         IN  IF ~s.ok
             THEN [result |-> "FATAL", table |-> t, output |-> out, used |-> used \cup {i}]
             ELSE select_loop([t EXCEPT !.pager = s.pager], i + 1,
                              Append(out, print_row(deserialize_row(s.pager.pages[s.page_num],
                                                                    s.byte_offset))),
                              used \cup {i})

\* execute_select(statement, table): the result, the lines printed, the
\* table afterwards (pages are cached as they are read)
execute_select(stmt, t) == select_loop(t, 0, <<>>, {})

\* execute_statement(statement, table)
execute_statement(stmt, t) ==
    IF stmt.type = "STATEMENT_INSERT"
    THEN execute_insert(stmt, t) @@ [output |-> <<>>]
    ELSE execute_select(stmt, t)

(***************************************************************************)
(* Command lines                                                           *)
(***************************************************************************)
\* A command line: the word it starts with, the number of arguments after
\* it, and the arguments (the first a decimal integer, the others words).
\* the keys of the well-formed insert commands
Keys == {1, 2, 3}

\* the username and the e-mail that go with key k: as long as the column
\* allows, but for the one-letter e-mail of key 1
NameOf(k) == [j \in 1..COLUMN_USERNAME_SIZE |-> 96 + k]

MailOf(k) == [j \in 1..(IF k = 1 THEN 1 ELSE COLUMN_EMAIL_SIZE) |-> 119 + k]

InsertLine(id, username, email) ==
    [cmd |-> "insert", nargs |-> 3, id |-> id, username |-> username, email |-> email]

SelectLine == [cmd |-> "select", nargs |-> 0, id |-> 0, username |-> <<>>, email |-> <<>>]

\* "insert k <name> <mail>" with every field within its limits
ValidLines == {InsertLine(k, NameOf(k), MailOf(k)) : k \in Keys} \cup {SelectLine}

LongName == [j \in 1..(COLUMN_USERNAME_SIZE + 1) |-> 110]

LongMail == [j \in 1..(COLUMN_EMAIL_SIZE + 1) |-> 109]

\* insert commands with a negative id, an overlong username, an overlong
\* e-mail, or fewer than three arguments
MalformedLines ==
    { InsertLine(-1, NameOf(1), MailOf(1)),
      InsertLine(1, LongName, MailOf(1)),
      InsertLine(2, NameOf(2), LongMail),
      [InsertLine(3, NameOf(3), <<>>) EXCEPT !.nargs = 2],
      [InsertLine(0, <<>>, <<>>) EXCEPT !.nargs = 0] }

OtherLine == [cmd |-> "other", nargs |-> 0, id |-> 0, username |-> <<>>, email |-> <<>>]

Malformed(line) ==
    /\ line.cmd = "insert"
    /\ \/ line.nargs < 3
       \/ line.id < 0
       \/ Len(line.username) > COLUMN_USERNAME_SIZE
       \/ Len(line.email) > COLUMN_EMAIL_SIZE

\* sscanf's %s: the word and a terminating NUL are stored from offset at
StoreStr(mem, at, word) ==
    [i \in DOMAIN mem |->
        IF i >= at /\ i < at + Len(word) THEN word[i - at + 1]
        ELSE IF i = at + Len(word) THEN 0
        ELSE mem[i]]

\* the store of %s runs past the end of the Row
Overruns(at, word) == at + Len(word) + 1 > ROW_SIZE

\* prepare_statement(input_buffer, statement): the possible outcomes. The
\* arguments are stored as sscanf stores them: the integer converted to the
\* uint32_t id, each word with its NUL from the start of its array, however
\* long the word is. A store past the end of the Row is undefined: the
\* process goes on or it crashes.
prepare_statement(line, stmt) ==
    IF line.cmd = "insert"
    THEN LET m0 == StructMem(stmt.row_to_insert)
             m1 == IF line.nargs >= 1
                   THEN memcpy(m0, 0, IdBytes(line.id), ID_SIZE) ELSE m0
             m2 == IF line.nargs >= 2 THEN StoreStr(m1, ID_SIZE, line.username) ELSE m1
             m3 == IF line.nargs >= 3
                   THEN StoreStr(m2, ID_SIZE + USERNAME_SIZE, line.email) ELSE m2
             undefined == \/ line.nargs >= 2 /\ Overruns(ID_SIZE, line.username)
                          \/ line.nargs >= 3 /\ Overruns(ID_SIZE + USERNAME_SIZE, line.email)
             returned == [crash |-> FALSE,
                          result |-> IF line.nargs < 3 THEN "PREPARE_SYNTAX_ERROR"
                                     ELSE "PREPARE_SUCCESS",
                          statement |-> [type |-> "STATEMENT_INSERT",
                                         row_to_insert |-> StructRow(m3)]]
         IN  IF undefined
             THEN {returned, [returned EXCEPT !.crash = TRUE]}
             ELSE {returned}
    ELSE IF line.cmd = "select"
    THEN {[crash |-> FALSE, result |-> "PREPARE_SUCCESS",
           statement |-> [stmt EXCEPT !.type = "STATEMENT_SELECT"]]}
    ELSE {[crash |-> FALSE, result |-> "PREPARE_UNRECOGNIZED_STATEMENT", statement |-> stmt]}

(***************************************************************************)
(* The program                                                             *)
(***************************************************************************)
CodecIdle == [phase |-> "idle", source |-> ZeroRow, mem |-> Zeros(PAGE_SIZE),
              at |-> 0, destination |-> ZeroRow]

InitProgram ==
    /\ pc = "closed"
    /\ file = <<>>
    /\ table = NoTable
    /\ statement = [type |-> "STATEMENT_SELECT", row_to_insert |-> ZeroRow]
    /\ prepareResult = "none"
    /\ executeResult = "none"
    /\ output = <<>>
    /\ lastOp = "none"
    /\ inserted = <<>>
    /\ dupAttempt = FALSE
    /\ rowsUsed = {}
    /\ sessionInserts = 0
    /\ openRows = 0
    /\ closedRows = <<>>
    /\ input_buffer = SelectLine
    /\ commands = 0
    /\ fullInserts = 0

Init == InitProgram /\ codec = CodecIdle

\* the program starts: db_open on the database file
Open ==
    /\ pc = "closed"
    /\ \E o \in {db_open} :
           /\ pc' = IF o.ok THEN "prompt" ELSE "failed"
           /\ table' = IF o.ok THEN o.table ELSE NoTable
           /\ openRows' = IF o.ok THEN o.table.num_rows ELSE 0
    /\ sessionInserts' = 0
    /\ lastOp' = "open"
    /\ output' = <<>>
    /\ rowsUsed' = {}
    /\ dupAttempt' = FALSE
    /\ fullInserts' = 0
    /\ UNCHANGED <<file, statement, prepareResult, executeResult, inserted,
                   closedRows, input_buffer, commands, codec>>

\* One turn of the command loop: a line is read, prepare_statement is called
\* on it and, when that returns PREPARE_SUCCESS, execute_statement is called
\* on the statement.
Turn(line) ==
    /\ pc = "prompt"
    /\ input_buffer' = line
    /\ \E o \in prepare_statement(line, statement) :
       \E r \in {IF ~o.crash /\ o.result = "PREPARE_SUCCESS"
                 THEN execute_statement(o.statement, table)
                 ELSE [result |-> "none", table |-> table, output |-> <<>>, used |-> {}]} :
          LET executed == ~o.crash /\ o.result = "PREPARE_SUCCESS"
              isInsert == executed /\ o.statement.type = "STATEMENT_INSERT"
          IN  /\ statement' = o.statement
              /\ prepareResult' = IF o.crash THEN "none" ELSE o.result
              /\ pc' = IF o.crash \/ r.result = "FATAL" THEN "failed" ELSE "prompt"
              /\ table' = r.table
              /\ executeResult' = r.result
              /\ output' = r.output
              /\ rowsUsed' = r.used
              /\ lastOp' = IF ~executed THEN "prepare"
                           ELSE IF isInsert THEN "insert" ELSE "select"
              /\ inserted' = IF isInsert /\ r.result = "EXECUTE_SUCCESS"
                             THEN Append(inserted, o.statement.row_to_insert) ELSE inserted
              /\ sessionInserts' = IF isInsert /\ r.result = "EXECUTE_SUCCESS"
                                   THEN sessionInserts + 1 ELSE sessionInserts
              /\ dupAttempt' = (isInsert /\ \E i \in 1..Len(inserted) :
                                   inserted[i].id = o.statement.row_to_insert.id)
              /\ fullInserts' = IF isInsert /\ r.result = "EXECUTE_TABLE_FULL"
                                THEN (IF fullInserts = 0 THEN 1 ELSE 2) ELSE fullInserts
    /\ UNCHANGED <<file, openRows, closedRows, codec>>

Command(line) == Turn(line) /\ UNCHANGED commands

\* the program ends: db_close flushes the pages and releases the table
Close ==
    /\ pc = "prompt"
    /\ file' = db_close(table)
    /\ closedRows' = execute_select(statement, table).output
    /\ table' = NoTable
    /\ pc' = "closed"
    /\ lastOp' = "close"
    /\ output' = <<>>
    /\ rowsUsed' = {}
    /\ dupAttempt' = FALSE
    /\ fullInserts' = 0
    /\ UNCHANGED <<statement, prepareResult, executeResult, inserted, sessionInserts,
                   openRows, input_buffer, commands, codec>>

Next ==
    \/ Open
    \/ \E line \in ValidLines : Command(line)
    \/ Close

Spec == Init /\ [][Next]_vars

\* The command loop on every kind of line, for a bounded number of lines.
CommandAny(line) ==
    /\ commands < MaxCommands
    /\ Turn(line)
    /\ commands' = commands + 1

NextPrepare ==
    \/ Open
    \/ \E line \in ValidLines \cup MalformedLines \cup {OtherLine} : CommandAny(line)

\* the caller's Statement is not initialised: its bytes are zeros or not
InitPrepare ==
    /\ pc = "closed"
    /\ file = <<>>
    /\ table = NoTable
    /\ \E fill \in {0, 85} :
          statement = [type |-> "STATEMENT_SELECT",
                       row_to_insert |-> [id |-> 0,
                                          username |-> [i \in 0..(USERNAME_SIZE - 1) |-> fill],
                                          email |-> [i \in 0..(EMAIL_SIZE - 1) |-> fill]]]
    /\ prepareResult = "none"
    /\ executeResult = "none"
    /\ output = <<>>
    /\ lastOp = "none"
    /\ inserted = <<>>
    /\ dupAttempt = FALSE
    /\ rowsUsed = {}
    /\ sessionInserts = 0
    /\ openRows = 0
    /\ closedRows = <<>>
    /\ input_buffer = SelectLine
    /\ commands = 0
    /\ fullInserts = 0
    /\ codec = CodecIdle

SpecPrepare == InitPrepare /\ [][NextPrepare]_vars

(***************************************************************************)
(* The row codec on its own                                                *)
(***************************************************************************)
\* character arrays that hold a string within the column's limit
CodecNames == {u \in [0..(USERNAME_SIZE - 1) -> {0, 97}] : \E i \in DOMAIN u : u[i] = 0}

CodecMails == {e \in [0..(EMAIL_SIZE - 1) -> {0, 120}] : \E i \in DOMAIN e : e[i] = 0}

\* ids with bits in every byte; -1 is 4294967295, -INT32_MAX - 1 is 2147483648
CodecIds == {0, 1, 258, 197125, INT32_MAX, 0 - 1, 0 - INT32_MAX - 1}

InitCodec ==
    /\ InitProgram
    /\ codec \in [phase : {"start"},
                  source : [id : CodecIds, username : CodecNames, email : CodecMails],
                  mem : {[i \in 0..(PAGE_SIZE - 1) |-> fill] : fill \in {0, 255}},
                  at : {n * ROW_SIZE : n \in 0..(ROWS_PER_PAGE - 1)},
                  destination : {ZeroRow}]

\* serialize_row(&source, mem + at)
Serialize ==
    /\ codec.phase = "start"
    /\ codec' = [codec EXCEPT !.phase = "serialized",
                              !.mem = serialize_row(codec.source, codec.mem, codec.at)]
    /\ UNCHANGED <<pc, file, table, statement, prepareResult, executeResult, output,
                   lastOp, inserted, dupAttempt, rowsUsed, sessionInserts, openRows,
                   closedRows, input_buffer, commands, fullInserts>>

\* deserialize_row(mem + at, &destination)
Deserialize ==
    /\ codec.phase = "serialized"
    /\ codec' = [codec EXCEPT !.phase = "done",
                              !.destination = deserialize_row(codec.mem, codec.at)]
    /\ UNCHANGED <<pc, file, table, statement, prepareResult, executeResult, output,
                   lastOp, inserted, dupAttempt, rowsUsed, sessionInserts, openRows,
                   closedRows, input_buffer, commands, fullInserts>>

NextCodec == Serialize \/ Deserialize

SpecCodec == InitCodec /\ [][NextCodec]_vars

(***************************************************************************)
(* Properties                                                              *)
(***************************************************************************)
Count(seq, x) == Cardinality({i \in 1..Len(seq) : seq[i] = x})

Range(seq) == {seq[i] : i \in 1..Len(seq)}

\* the two sequences hold the same elements the same number of times
SameBag(a, b) ==
    /\ Len(a) = Len(b)
    /\ \A x \in Range(a) \cup Range(b) : Count(a, x) = Count(b, x)

Printed(rows) == [i \in 1..Len(rows) |-> print_row(rows[i])]

Ids(rows) == [i \in 1..Len(rows) |-> rows[i].id]

DistinctInserts ==
    \A i, j \in 1..Len(inserted) : i # j => inserted[i].id # inserted[j].id

ScanDone == lastOp = "select" /\ executeResult = "EXECUTE_SUCCESS"

\* C1: after successful inserts of (distinct) keys in any order, a full scan
\* yields the rows in strictly increasing key order.
C1_ScanInKeyOrder ==
    (ScanDone /\ DistinctInserts) =>
        \A i \in 1..(Len(output) - 1) : U32Less(output[i].id, output[i + 1].id)

\* C2: an insert of a key that was inserted before reports
\* EXECUTE_DUPLICATE_KEY, and a full scan shows no key twice.
C2_DuplicateKeyRejected ==
    /\ (lastOp = "insert" /\ dupAttempt) => executeResult = "EXECUTE_DUPLICATE_KEY"
    /\ ScanDone => \A i, j \in 1..Len(output) : i # j => output[i].id # output[j].id

\* C3: on a table opened empty every insert succeeds while fewer than
\* TABLE_MAX_ROWS rows are stored, so exactly TABLE_MAX_ROWS inserts succeed,
\* and an insert after that returns EXECUTE_TABLE_FULL.
C3_CapacityBoundary ==
    (lastOp = "insert" /\ openRows = 0) =>
        /\ executeResult \in {"EXECUTE_SUCCESS", "EXECUTE_TABLE_FULL"}
        /\ sessionInserts <= TABLE_MAX_ROWS
        /\ table.num_rows = sessionInserts
        /\ executeResult = "EXECUTE_TABLE_FULL" => sessionInserts = TABLE_MAX_ROWS

C3_Witness ==
    /\ lastOp = "insert" /\ openRows = 0
    /\ executeResult = "EXECUTE_TABLE_FULL"
    /\ sessionInserts = TABLE_MAX_ROWS

\* C4: a table closed and opened again from the same file yields, on a full
\* scan, the rows it yielded before it was closed, in the same order.
C4_ReopenKeepsRows ==
    (lastOp = "select" /\ sessionInserts = 0) =>
        (executeResult = "EXECUTE_SUCCESS" /\ output = closedRows)

\* C5: a full scan returns exactly the rows inserted, each once and with the
\* id, username and email given at insert time; after inserts of the keys
\* 3, 1, 2 into an empty table it yields the keys 1, 2, 3 with their fields.
C5_ScanReturnsInserted ==
    (lastOp = "select" /\ openRows = 0) =>
        /\ executeResult = "EXECUTE_SUCCESS"
        /\ SameBag(output, Printed(inserted))
        /\ Ids(inserted) = <<3, 1, 2>> =>
              output = Printed(<<inserted[2], inserted[3], inserted[1]>>)

\* What the code does instead: the rows inserted into a table opened empty
\* are the rows a scan prints, in the order of their insertion.
ScanInInsertionOrder ==
    (lastOp = "select" /\ openRows = 0) =>
        (executeResult = "EXECUTE_SUCCESS" /\ output = Printed(inserted))

\* C6: deserialize_row of the bytes serialize_row wrote gives the row back,
\* and the id, the username and the email lie one after the other, without
\* overlap, at ID_OFFSET, USERNAME_OFFSET and EMAIL_OFFSET of the slot.
C6_RoundTrip ==
    /\ codec.phase = "done" => codec.destination = codec.source
    /\ codec.phase \in {"serialized", "done"} =>
          /\ Slice(codec.mem, codec.at + ID_OFFSET, ID_SIZE) = IdBytes(codec.source.id)
          /\ Slice(codec.mem, codec.at + USERNAME_OFFSET, USERNAME_SIZE)
                = codec.source.username
          /\ Slice(codec.mem, codec.at + EMAIL_OFFSET, EMAIL_SIZE) = codec.source.email
          /\ ID_OFFSET + ID_SIZE <= USERNAME_OFFSET
          /\ USERNAME_OFFSET + USERNAME_SIZE <= EMAIL_OFFSET
          /\ EMAIL_OFFSET + EMAIL_SIZE <= ROW_SIZE

C6_Witness ==
    /\ codec.phase = "done"
    /\ codec.source.id < 0
    /\ codec.source.username[0] # 0
    /\ codec.source.email[0] # 0
    /\ codec.at > 0
    /\ codec.destination = codec.source

\* C7: an insert command with a field out of its limits, a negative id or
\* fewer than three arguments is refused by prepare_statement and does not
\* reach execute_insert.
C7_MalformedRejected ==
    /\ (lastOp = "prepare" /\ pc # "failed" /\ Malformed(input_buffer)) =>
          prepareResult # "PREPARE_SUCCESS"
    /\ lastOp = "insert" => ~Malformed(input_buffer)

\* C8: a scan of a table just opened from a file of length 0 prints no row.
C8_EmptyFileScan ==
    (lastOp = "select" /\ Len(file) = 0 /\ sessionInserts = 0) =>
        (executeResult = "EXECUTE_SUCCESS" /\ output = <<>>)

C8_Witness ==
    /\ lastOp = "select" /\ Len(file) = 0 /\ sessionInserts = 0
    /\ table.num_rows = 0
    /\ output = <<>>

\* a step in which execute_insert is called
InsertStep == pc = "prompt" /\ lastOp' = "insert"

\* C9: an insert that returns EXECUTE_TABLE_FULL leaves num_rows, the pages
\* and the file as they were; after it every insert on the table returns
\* EXECUTE_TABLE_FULL; num_rows of an open table never decreases.
C9_TableFullFrame ==
    [][/\ InsertStep =>
             /\ executeResult' = "EXECUTE_TABLE_FULL" =>
                   (table' = table /\ file' = file /\ pc' = "prompt")
             /\ fullInserts > 0 => executeResult' = "EXECUTE_TABLE_FULL"
       /\ (pc = "prompt" /\ pc' = "prompt") =>
             table'.num_rows >= table.num_rows]_vars

C9_Witness ==
    /\ lastOp = "insert"
    /\ executeResult = "EXECUTE_TABLE_FULL"
    /\ fullInserts = 2
    /\ table.num_rows = TABLE_MAX_ROWS

SlotStart(r) == row_slot(table, r).page_num * PAGE_SIZE + row_slot(table, r).byte_offset

\* C10: every row number execute_insert or execute_select uses is below
\* TABLE_MAX_ROWS, its page number is below TABLE_MAX_PAGES, its bytes lie
\* inside that page, and the bytes of two row numbers do not overlap.
C10_RowSlotInBounds ==
    \A r \in rowsUsed :
        /\ r < TABLE_MAX_ROWS
        /\ row_slot(table, r).page_num < TABLE_MAX_PAGES
        /\ row_slot(table, r).byte_offset + ROW_SIZE <= PAGE_SIZE
        /\ \A q \in rowsUsed :
              q # r => (SlotStart(q) + ROW_SIZE <= SlotStart(r)
                        \/ SlotStart(r) + ROW_SIZE <= SlotStart(q))

====
